---- MODULE Spec2Model ----
(***************************************************************************)
(* Model of checks/utils/utils.py: the hierarchical LVS configuration      *)
(* loader (parse_config_file, substitute_env_variables, is_valid) and its  *)
(* caller run_be_check.                                                    *)
(*                                                                         *)
(* Python strings are sequences of one-character strings, so that          *)
(* startswith, re.findall, str.replace, str.split and str.join are         *)
(* computed as the interpreter computes them.  Dictionary keys are TLA+    *)
(* strings; a dictionary is a function whose DOMAIN is its key set.        *)
(***************************************************************************)
EXTENDS Integers, Sequences, FiniteSets, TLC

VARIABLES
    fs,          \* file system: path -> content, drawn when a path is first read
    be_env,      \* the environment mapping shared by every recursive load
    stack,       \* call stack of parse_config_file frames, innermost last
    calls,       \* history: paths parse_config_file was entered with, in order
    log,         \* history: kinds of logging.error / logging.warn records
    rb_pc,       \* position of run_be_check
    rb_ret,      \* return value of run_be_check ("none" until it returns)
    parse_ret,   \* history: what the top-level parse_config_file call returned
    started,     \* TRUE once subprocess.run has been called
    round,       \* harness: which of two successive resolutions is running
    first_env,   \* harness: be_env after the first resolution
    sub_in,      \* harness: argument string of substitute_env_variables
    sub_out      \* harness: result of substitute_env_variables

vars == <<fs, be_env, stack, calls, log, rb_pc, rb_ret, parse_ret, started,
          round, first_env, sub_in, sub_out>>

(***************************************************************************)
(* Bounds of the model.                                                    *)
(***************************************************************************)
\* interpreter recursion limit (sys.getrecursionlimit(), 1000 by default)
RecursionLimit == 5
\* longest INCLUDE_CONFIGS list of a generated document
MaxIncl == 2
\* longest ordinary list of a generated document
MaxList == 2
\* longest argument string of the substitution harness
MaxLen == 5

(***************************************************************************)
(* Strings.                                                                *)
(***************************************************************************)
\* the characters the regular expression class \w matches
WordChars ==
    {"a","b","c","d","e","f","g","h","i","j","k","l","m","n","o","p","q","r",
     "s","t","u","v","w","x","y","z",
     "A","B","C","D","E","F","G","H","I","J","K","L","M","N","O","P","Q","R",
     "S","T","U","V","W","X","Y","Z",
     "0","1","2","3","4","5","6","7","8","9","_"}

\* the key a sequence of characters spells
RECURSIVE Spell(_)
Spell(cs) == IF cs = <<>> THEN "" ELSE Head(cs) \o Spell(Tail(cs))

SetMin(S) == CHOOSE m \in S : \A n \in S : m <= n

\* string.startswith("/") negated
is_valid_accept_all(string) == TRUE

is_valid(string) == ~(Len(string) >= 1 /\ string[1] = "/")

\* "/" in string
is_path(string) == \E i \in 1..Len(string) : string[i] = "/"

\* "$" in string
HasDollar(string) == \E i \in 1..Len(string) : string[i] = "$"

\* last index of the run of word characters that starts at index i
RECURSIVE WordRunEnd(_, _)
WordRunEnd(s, i) ==
    IF i < Len(s) /\ s[i + 1] \in WordChars THEN WordRunEnd(s, i + 1) ELSE i

\* re.findall(r'\$\w+', string) scanning from index i: non-overlapping
\* leftmost matches, each greedy
RECURSIVE FindAllFrom(_, _)
FindAllFrom(s, i) ==
    IF i > Len(s) THEN <<>>
    ELSE IF s[i] = "$" /\ i < Len(s) /\ s[i + 1] \in WordChars
         THEN LET j == WordRunEnd(s, i + 1)
              IN  <<SubSeq(s, i, j)>> \o FindAllFrom(s, j + 1)
         ELSE FindAllFrom(s, i + 1)

FindAll(s) == FindAllFrom(s, 1)

\* string.replace(w, v, 1): the leftmost occurrence of w becomes v
ReplaceAt(s, i, n, v) == SubSeq(s, 1, i - 1) \o v \o SubSeq(s, i + n, Len(s))

ReplaceFirst(s, w, v) ==
    LET occ == {i \in 1..(Len(s) - Len(w) + 1) : SubSeq(s, i, i + Len(w) - 1) = w}
    IN  IF occ = {} THEN s ELSE ReplaceAt(s, SetMin(occ), Len(w), v)

\* the for-loop of substitute_env_variables over the remaining words
RECURSIVE SubstLoop(_, _, _)
SubstLoop(words, string, env) ==
    IF words = <<>> THEN [ok |-> TRUE, s |-> string]
    ELSE LET w == Head(words)
             env_var == Spell(Tail(w))
         IN  IF env_var \in DOMAIN env
             THEN SubstLoop(Tail(words), ReplaceFirst(string, w, env[env_var]), env)
             ELSE [ok |-> FALSE, s |-> <<>>]

\* substitute_env_variables: ok = FALSE stands for the None result
substitute_env_variables(string, env) ==
    IF HasDollar(string) THEN SubstLoop(FindAll(string), string, env)
    ELSE [ok |-> TRUE, s |-> string]

\* str.split() with no argument, from index i: cur is the token being read
RECURSIVE SplitFrom(_, _, _)
SplitFrom(s, i, cur) ==
    IF i > Len(s) THEN (IF cur = <<>> THEN <<>> ELSE <<cur>>)
    ELSE IF s[i] = " "
         THEN (IF cur = <<>> THEN <<>> ELSE <<cur>>) \o SplitFrom(s, i + 1, <<>>)
         ELSE SplitFrom(s, i + 1, Append(cur, s[i]))

Split(s) == SplitFrom(s, 1, <<>>)

\* ' '.join(list)
RECURSIVE Join(_)
Join(l) ==
    IF l = <<>> THEN <<>>
    ELSE IF Len(l) = 1 THEN l[1]
    ELSE l[1] \o <<" ">> \o Join(Tail(l))

\* val in exports
InList(val, l) == \E i \in 1..Len(l) : l[i] = val

\* dict[key] = value
Put(env, key, value) ==
    [k \in DOMAIN env \cup {key} |-> IF k = key THEN value ELSE env[k]]

\* dict.update(other)
Update(env, other) ==
    [k \in DOMAIN env \cup DOMAIN other |->
        IF k \in DOMAIN other THEN other[k] ELSE env[k]]

\* all sequences over S of length lo..hi
SeqsOf(S, lo, hi) == UNION {[1..n -> S] : n \in lo..hi}

(***************************************************************************)
(* Documents and the file system.                                          *)
(*                                                                         *)
(* A document is json.load's dictionary as the sequence of its entries in  *)
(* field order (keys distinct).  An entry's value is a list of strings; a  *)
(* scalar string is held as a one-element list with is_list = FALSE.       *)
(***************************************************************************)
INCLUDE_CONFIGS == "INCLUDE_CONFIGS"

Scalar(key, string) == [key |-> key, is_list |-> FALSE, value |-> <<string>>]
List(key, strings)  == [key |-> key, is_list |-> TRUE, value |-> strings]

Unread    == [kind |-> "unread", entries |-> <<>>]
Missing   == [kind |-> "missing", entries |-> <<>>]
Malformed == [kind |-> "malformed", entries |-> <<>>]
Doc(entries) == [kind |-> "doc", entries |-> entries]

pA == <<"A">>
pB == <<"B">>
pC == <<"C">>
pD == <<"D">>
AllPaths == {pA, pB, pC, pD}

\* what open(path) finds
Content(path) == IF path \in DOMAIN fs THEN fs[path] ELSE Missing

EmptyEnv == [k \in {} |-> <<>>]

(***************************************************************************)
(* parse_config_file.  One frame per active call:                          *)
(*   file      the json_file argument                                      *)
(*   pc        "open": before json.load; "keys": at the head of the loop   *)
(*             over data.items(); "elems": at the head of the loop over a  *)
(*             list value; "ret": returned res                             *)
(*   ki, ei    index of the current entry and of the current list element  *)
(*   exports   the local list of that name                                 *)
(*   val_bound whether the local name val has been assigned                *)
(*   saved     history: be_env[key] when the current key was begun         *)
(***************************************************************************)
NoValue == [has |-> FALSE, v |-> <<>>]
ValueOf(env, key) ==
    IF key \in DOMAIN env THEN [has |-> TRUE, v |-> env[key]] ELSE NoValue

NewFrame(path) ==
    [file |-> path, pc |-> "open", ki |-> 0, ei |-> 0, exports |-> <<>>,
     val_bound |-> FALSE, saved |-> NoValue, res |-> FALSE]

Top == stack[Len(stack)]
SetTop(f) == [stack EXCEPT ![Len(stack)] = f]
Entries(f) == Content(f.file).entries
Entry(f) == Entries(f)[f.ki]
Returned(f, res) == [f EXCEPT !.pc = "ret", !.res = res]

\* line 139: the accumulator a list value starts from
InitialExportsEmpty(env, key) == <<>>

InitialExports(env, key) ==
    IF key \in DOMAIN env THEN Split(env[key]) ELSE <<>>

\* line 145: whether the substituted element is appended
IsNewAlways(val, exports) == TRUE

IsNew(val, exports) == ~InList(val, exports)

\* lines 146-148: be_env after an element was appended to exports
EnvAfterAppendEager(env, key, val, exports) ==
    IF key = INCLUDE_CONFIGS
    THEN Put(env, key, env[key] \o <<" ">> \o val)
    ELSE Put(env, key, Join(exports))

EnvAfterAppend(env, key, val, exports) ==
    IF key = INCLUDE_CONFIGS
    THEN Put(env, key, env[key] \o <<" ">> \o val)
    ELSE env

\* line 149: whether the caller gives up after an included file's load
IncludeFailedNever(res) == FALSE

IncludeFailed(res) == ~res

\* lines 135-136 (and 166-170): open and json.load
Open(Pool) ==
    /\ stack # <<>>
    /\ Top.pc = "open"
    /\ LET path == Top.file
           fresh == path \in DOMAIN fs /\ fs[path].kind = "unread"
       IN  \E c \in (IF fresh THEN Pool[path] ELSE {Content(path)}) :
             /\ fs' = IF fresh THEN [fs EXCEPT ![path] = c] ELSE fs
             /\ IF c.kind = "doc"
                THEN /\ stack' = SetTop([Top EXCEPT !.pc = "keys", !.ki = 1])
                     /\ log' = log
                ELSE /\ stack' = SetTop(Returned(Top, FALSE))
                     /\ log' = Append(log, "exception")
    /\ UNCHANGED <<be_env, calls, rb_pc, rb_ret, parse_ret, started, round,
                   first_env, sub_in, sub_out>>

\* line 165: the loop over data.items() is exhausted
KeysDone ==
    /\ stack # <<>>
    /\ Top.pc = "keys"
    /\ Top.ki > Len(Entries(Top))
    /\ stack' = SetTop(Returned(Top, TRUE))
    /\ UNCHANGED <<fs, be_env, calls, log, rb_pc, rb_ret, parse_ret, started,
                   round, first_env, sub_in, sub_out>>

\* lines 156-164: a scalar value
ScalarKey ==
    /\ stack # <<>>
    /\ Top.pc = "keys"
    /\ Top.ki <= Len(Entries(Top))
    /\ ~Entry(Top).is_list
    /\ LET key == Entry(Top).key
           value == Entry(Top).value[1]
           r == substitute_env_variables(value, be_env)
           f == [Top EXCEPT !.saved = ValueOf(be_env, key)]
       IN  IF is_valid(value)
           THEN IF r.ok
                THEN /\ be_env' = Put(be_env, key, r.s)
                     /\ stack' = SetTop([f EXCEPT !.ki = @ + 1])
                     /\ log' = log
                ELSE /\ be_env' = be_env
                     /\ stack' = SetTop(Returned(f, FALSE))
                     /\ log' = Append(log, "undefined")
           ELSE \* line 163 formats val: a NameError unless a list bound it
                /\ be_env' = be_env
                /\ stack' = SetTop(Returned(f, FALSE))
                /\ log' = Append(log, IF f.val_bound THEN "absolute" ELSE "exception")
    /\ UNCHANGED <<fs, calls, rb_pc, rb_ret, parse_ret, started, round,
                   first_env, sub_in, sub_out>>

\* lines 138-139: a list value is begun
ListBegin ==
    /\ stack # <<>>
    /\ Top.pc = "keys"
    /\ Top.ki <= Len(Entries(Top))
    /\ Entry(Top).is_list
    /\ LET key == Entry(Top).key
       IN  stack' = SetTop([Top EXCEPT !.pc = "elems", !.ei = 1,
                                       !.exports = InitialExports(be_env, key),
                                       !.saved = ValueOf(be_env, key)])
    /\ UNCHANGED <<fs, be_env, calls, log, rb_pc, rb_ret, parse_ret, started,
                   round, first_env, sub_in, sub_out>>

\* lines 140-153: one element of a list value
ListElem ==
    /\ stack # <<>>
    /\ Top.pc = "elems"
    /\ Top.ei <= Len(Entry(Top).value)
    /\ LET key == Entry(Top).key
           val == Entry(Top).value[Top.ei]
           r == substitute_env_variables(val, be_env)
           f == [Top EXCEPT !.val_bound = TRUE]
           exports == Append(f.exports, r.s)
           g == [f EXCEPT !.exports = exports]
       IN  IF ~is_valid(val)
           THEN /\ stack' = SetTop(Returned(f, FALSE))
                /\ log' = Append(log, "absolute")
                /\ UNCHANGED <<be_env, calls>>
           ELSE IF ~r.ok
           THEN /\ stack' = SetTop(Returned(f, FALSE))
                /\ log' = Append(log, "undefined")
                /\ UNCHANGED <<be_env, calls>>
           ELSE IF ~IsNew(r.s, f.exports)
           THEN /\ stack' = SetTop([f EXCEPT !.ei = @ + 1])
                /\ UNCHANGED <<be_env, calls, log>>
           ELSE IF key # INCLUDE_CONFIGS
           THEN /\ stack' = SetTop([g EXCEPT !.ei = @ + 1])
                /\ be_env' = EnvAfterAppend(be_env, key, r.s, exports)
                /\ UNCHANGED <<calls, log>>
           ELSE IF INCLUDE_CONFIGS \notin DOMAIN be_env
           THEN \* line 148 raises KeyError
                /\ stack' = SetTop(Returned(g, FALSE))
                /\ log' = Append(log, "exception")
                /\ UNCHANGED <<be_env, calls>>
           ELSE IF Len(stack) >= RecursionLimit
           THEN \* line 149 raises RecursionError, caught at line 166
                /\ stack' = SetTop(Returned(g, FALSE))
                /\ be_env' = EnvAfterAppend(be_env, key, r.s, exports)
                /\ log' = Append(log, "exception")
                /\ UNCHANGED calls
           ELSE /\ stack' = Append(SetTop(g), NewFrame(r.s))
                /\ be_env' = EnvAfterAppend(be_env, key, r.s, exports)
                /\ calls' = Append(calls, r.s)
                /\ log' = log
    /\ UNCHANGED <<fs, rb_pc, rb_ret, parse_ret, started, round, first_env,
                   sub_in, sub_out>>

\* lines 154-155: a list value is finished
ListEnd ==
    /\ stack # <<>>
    /\ Top.pc = "elems"
    /\ Top.ei > Len(Entry(Top).value)
    /\ LET key == Entry(Top).key
       IN  be_env' = IF key # INCLUDE_CONFIGS
                     THEN Put(be_env, key, Join(Top.exports))
                     ELSE be_env
    /\ stack' = SetTop([Top EXCEPT !.pc = "keys", !.ki = @ + 1, !.ei = 0])
    /\ UNCHANGED <<fs, calls, log, rb_pc, rb_ret, parse_ret, started, round,
                   first_env, sub_in, sub_out>>

\* lines 149-150: an included file's load returns to the including frame
Return ==
    /\ Len(stack) >= 2
    /\ Top.pc = "ret"
    /\ LET caller == stack[Len(stack) - 1]
           rest == SubSeq(stack, 1, Len(stack) - 2)
       IN  stack' = IF IncludeFailed(Top.res)
                    THEN Append(rest, Returned(caller, FALSE))
                    ELSE Append(rest, [caller EXCEPT !.ei = @ + 1])
    /\ UNCHANGED <<fs, be_env, calls, log, rb_pc, rb_ret, parse_ret, started,
                   round, first_env, sub_in, sub_out>>

(***************************************************************************)
(* run_be_check.  Directory creation and the log file are glue around the  *)
(* steps below and carry no state of the resolver.                         *)
(***************************************************************************)
\* the arguments: design_directory, output_directory, os.getcwd(), pdk_root,
\* pdk, design_name and config_file
DesignDir == <<"/", "d">>
OutputDir == <<"/", "o">>
Cwd       == <<"/", "w">>
PdkRoot   == <<"/", "p">>
Pdk       == <<"s">>
DesignName == <<"n">>
ConfigFile == pA

\* lines 193-201
SeedEnv ==
    [k \in {"UPRJ_ROOT", "LVS_ROOT", "WORK_ROOT", "LOG_ROOT", "SIGNOFF_ROOT",
            "PDK", "PDK_ROOT", "DESIGN_NAME"} |->
        CASE k = "UPRJ_ROOT"    -> DesignDir
          [] k = "LVS_ROOT"     -> Cwd \o <<"/", "b", "/">>
          [] k = "WORK_ROOT"    -> OutputDir \o <<"/", "t">>
          [] k = "LOG_ROOT"     -> OutputDir \o <<"/", "l">>
          [] k = "SIGNOFF_ROOT" -> OutputDir \o <<"/", "r">>
          [] k = "PDK"          -> Pdk
          [] k = "PDK_ROOT"     -> PdkRoot
          [] k = "DESIGN_NAME"  -> DesignName]

\* line 126: the keys print_lvs_config reports
LvsKeys == {"EXTRACT_FLATGLOB", "EXTRACT_ABSTRACT", "LVS_FLATTEN", "LVS_NOFLATTEN",
            "LVS_IGNORE", "LVS_SPICE_FILES", "LVS_VERILOG_FILES", "LAYOUT_FILE"}

\* lines 125-130: one warning per absent key, nothing else
RECURSIVE Warnings(_)
Warnings(n) == IF n = 0 THEN <<>> ELSE <<"warning">> \o Warnings(n - 1)

print_lvs_config(env) == Warnings(Cardinality(LvsKeys \ DOMAIN env))

\* the ambient os.environ at line 210
OsEnvs ==
    {EmptyEnv,
     [k \in {"PATH"} |-> <<"/", "b">>],
     [k \in {"PATH", "PDK_ROOT"} |-> IF k = "PATH" THEN <<"/", "b">> ELSE <<"/", "q">>]}

\* the check argument; only LVS and OEB bind be_script (lines 186-191)
Checks == {"LVS", "OEB", "DRC"}

\* exit statuses of the external script
Stats == {0, 1, 4}

\* line 206: whether run_be_check gives up after resolution
ResolveFailedNever(res) == FALSE

ResolveFailed(res) == ~res

\* lines 193-206: seed the environment, test the file, call parse_config_file
RbStart(Pool) ==
    /\ rb_pc = "start"
    /\ \E c \in Pool[ConfigFile] :
         /\ fs' = [fs EXCEPT ![ConfigFile] = c]
         /\ IF c.kind = "missing"
            THEN /\ be_env' = SeedEnv
                 /\ log' = Append(log, "no_config")
                 /\ rb_pc' = "done"
                 /\ rb_ret' = "False"
                 /\ UNCHANGED <<stack, calls>>
            ELSE /\ be_env' = Put(SeedEnv, INCLUDE_CONFIGS, ConfigFile)
                 /\ stack' = <<NewFrame(ConfigFile)>>
                 /\ calls' = <<ConfigFile>>
                 /\ rb_pc' = "parse"
                 /\ UNCHANGED <<log, rb_ret>>
    /\ UNCHANGED <<parse_ret, started, round, first_env, sub_in, sub_out>>

\* lines 206-207: parse_config_file returns to run_be_check
RbAfterParse ==
    /\ rb_pc = "parse"
    /\ Len(stack) = 1
    /\ Top.pc = "ret"
    /\ stack' = <<>>
    /\ parse_ret' = IF Top.res THEN "True" ELSE "False"
    /\ IF ResolveFailed(Top.res)
       THEN rb_pc' = "done" /\ rb_ret' = "False"
       ELSE rb_pc' = "exec" /\ rb_ret' = rb_ret
    /\ UNCHANGED <<fs, be_env, calls, log, started, round, first_env, sub_in, sub_out>>

\* lines 208-226: report, merge os.environ, run the script, judge its status
RbExec ==
    /\ rb_pc = "exec"
    /\ \E check \in Checks :
         IF check \notin {"LVS", "OEB"}
         THEN \* line 208 reads the unbound be_script
              /\ rb_pc' = "raised"
              /\ UNCHANGED <<be_env, log, rb_ret, started>>
         ELSE \E os \in OsEnvs, stat \in Stats :
              /\ be_env' = Update(be_env, os)
              /\ started' = TRUE
              /\ log' = log \o print_lvs_config(be_env)
                            \o (IF stat = 4 THEN <<"warning">>
                                ELSE IF stat # 0 THEN <<"failed">> ELSE <<>>)
              /\ rb_ret' = IF stat = 4 \/ stat = 0 THEN "True" ELSE "False"
              /\ rb_pc' = "done"
    /\ UNCHANGED <<fs, stack, calls, parse_ret, round, first_env, sub_in, sub_out>>

(***************************************************************************)
(* Configuration documents the files may hold.                             *)
(***************************************************************************)
vU == <<"$", "U">>                          \* a variable nothing defines

\* include graphs: every file is absent, unparsable, empty, a lone scalar, or
\* a document whose single entry is an INCLUDE_CONFIGS list of paths
GraphIncludes ==
    {List(INCLUDE_CONFIGS, l) : l \in SeqsOf(AllPaths, 1, MaxIncl)}
GraphDocs ==
    {Doc(<<>>), Doc(<<Scalar("LAYOUT_FILE", <<"g">>)>>)}
        \cup {Doc(<<e>>) : e \in GraphIncludes}
PoolGraph == [path \in AllPaths |-> GraphDocs \cup {Missing, Malformed}]

\* include graphs with faults: over three paths, an INCLUDE_CONFIGS list may
\* also name an unknown variable or an absolute path, INCLUDE_CONFIGS may be
\* a scalar, and a scalar entry may follow
CycleElems == {pA, pB, pC, vU, <<"/", "A">>}
CycleIncludes ==
    {List(INCLUDE_CONFIGS, l) : l \in SeqsOf(CycleElems, 1, MaxIncl)}
        \cup {Scalar(INCLUDE_CONFIGS, <<"x">>)}
CycleDocs ==
    {Doc(<<>>)} \cup {Doc(<<e>>) : e \in CycleIncludes}
        \cup {Doc(<<e, Scalar("LAYOUT_FILE", <<"g">>)>>) : e \in CycleIncludes}
PoolCycle == [path \in AllPaths |-> CycleDocs \cup {Missing, Malformed}]

\* values with and without references, valid and absolute
vPdkRootI == <<"$", "P", "D", "K", "_", "R", "O", "O", "T", "/", "i">>
vPdk      == <<"$", "P", "D", "K">>
DataListElems  == {<<"a">>, vPdkRootI, vU, <<"/", "a">>}
DataScalars    == {<<"v">>, vPdk, vU, <<"/", "v">>, <<"/">> \o vPdk, <<"/">> \o vU}
DataInclElems  == {pB, vU}
DataEntries ==
    {List(INCLUDE_CONFIGS, l) : l \in SeqsOf(DataInclElems, 1, MaxIncl)}
        \cup {List("LVS_IGNORE", l) : l \in SeqsOf(DataListElems, 1, MaxList)}
        \cup {Scalar("LAYOUT_FILE", v) : v \in DataScalars}

\* the top-level document: no entry, one entry, or two entries with
\* different keys in either order; an included document: at most one entry
DistinctKeys(doc) ==
    \A i, j \in 1..Len(doc.entries) :
        i # j => doc.entries[i].key # doc.entries[j].key
DataTopDocs ==
  {d \in
    {Doc(<<>>)} \cup {Doc(<<e>>) : e \in DataEntries}
        \cup {Doc(<<e1, e2>>) : e1 \in DataEntries, e2 \in DataEntries}
   : DistinctKeys(d)}
DataChildDocs == {Doc(<<>>)} \cup {Doc(<<e>>) : e \in DataEntries}
PoolData ==
    [path \in AllPaths |->
        (IF path = ConfigFile THEN DataTopDocs ELSE DataChildDocs)
            \cup {Missing, Malformed}]

\* sibling includes that merge one list key: the top-level document includes
\* B and C, which each hold one LVS_IGNORE entry, a list or a scalar
MergeElems == {<<"a">>, <<"b">>, <<"c">>, vPdkRootI}
MergeTopDocs ==
    {Doc(<<List(INCLUDE_CONFIGS, l)>>) : l \in SeqsOf({pB, pC}, 1, MaxIncl)}
MergeChildDocs ==
    {Doc(<<List("LVS_IGNORE", l)>>) : l \in SeqsOf(MergeElems, 1, MaxList)}
        \cup {Doc(<<Scalar("LVS_IGNORE", v)>>) : v \in {<<"c", " ", " ", "a">>, <<>>}}
PoolMerge ==
    [path \in AllPaths |-> IF path = ConfigFile THEN MergeTopDocs ELSE MergeChildDocs]

\* documents without includes, resolved twice: at most two entries, with
\* different keys; values may refer to the keys the document assigns
vLayout == <<"$", "L", "A", "Y", "O", "U", "T", "_", "F", "I", "L", "E">>
TwiceListElems == {<<"a">>, <<"b">>, vPdk, vLayout, <<"a", " ", "b">>}
TwiceScalars   == {<<"v">>, vPdk, vLayout \o <<"/", "x">>}
TwiceEntries ==
    {List("LVS_IGNORE", l) : l \in SeqsOf(TwiceListElems, 1, MaxList)}
        \cup {Scalar("LAYOUT_FILE", v) : v \in TwiceScalars}
TwiceDocs ==
  {d \in
    {Doc(<<>>)} \cup {Doc(<<e>>) : e \in TwiceEntries}
        \cup {Doc(<<e1, e2>>) : e1 \in TwiceEntries, e2 \in TwiceEntries}
   : DistinctKeys(d)}
\* seed environments: run_be_check's, with or without earlier values
TwiceSeeds ==
    LET base == Put(SeedEnv, INCLUDE_CONFIGS, ConfigFile)
        withLayout == {base, Put(base, "LAYOUT_FILE", <<"w">>)}
    IN  withLayout
            \cup {Put(e, "LVS_IGNORE", v) :
                    e \in withLayout, v \in {<<"b">>, <<"a", " ", " ", "b">>}}
PoolNone == [path \in AllPaths |-> {Missing}]

\* arguments of the substitution harness
SubstChars == {"$", "P", "R", "/"}
SubstValues == {<<"x">>, <<"R">>, <<>>}
SubstEnvs == UNION {[names -> SubstValues] : names \in SUBSET {"P", "R", "PR"}}

InitRun ==
    /\ fs = [p \in AllPaths |-> Unread]
    /\ be_env = EmptyEnv
    /\ stack = <<>>
    /\ calls = <<>>
    /\ log = <<>>
    /\ rb_pc = "start"
    /\ rb_ret = "none"
    /\ parse_ret = "none"
    /\ started = FALSE
    /\ round = 0
    /\ first_env = EmptyEnv
    /\ sub_in = <<>>
    /\ sub_out = [done |-> FALSE, ok |-> FALSE, s |-> <<>>]

NextGraph ==
    \/ RbStart(PoolGraph)
    \/ Open(PoolGraph)
    \/ KeysDone
    \/ ScalarKey
    \/ ListBegin
    \/ ListElem
    \/ ListEnd
    \/ Return
    \/ RbAfterParse
    \/ RbExec

SpecGraph == InitRun /\ [][NextGraph]_vars

NextCycle ==
    \/ RbStart(PoolCycle)
    \/ Open(PoolCycle)
    \/ KeysDone
    \/ ScalarKey
    \/ ListBegin
    \/ ListElem
    \/ ListEnd
    \/ Return
    \/ RbAfterParse
    \/ RbExec

SpecCycle == InitRun /\ [][NextCycle]_vars

Next ==
    \/ RbStart(PoolData)
    \/ Open(PoolData)
    \/ KeysDone
    \/ ScalarKey
    \/ ListBegin
    \/ ListElem
    \/ ListEnd
    \/ Return
    \/ RbAfterParse
    \/ RbExec

Spec == InitRun /\ [][Next]_vars

NextMerge ==
    \/ RbStart(PoolMerge)
    \/ Open(PoolMerge)
    \/ KeysDone
    \/ ScalarKey
    \/ ListBegin
    \/ ListElem
    \/ ListEnd
    \/ Return
    \/ RbAfterParse
    \/ RbExec

SpecMerge == InitRun /\ [][NextMerge]_vars

\* two successive resolutions of one document on one environment
InitTwice ==
    /\ \E d \in TwiceDocs : fs = [p \in AllPaths |-> IF p = ConfigFile THEN d ELSE Unread]
    /\ be_env \in TwiceSeeds
    /\ stack = <<NewFrame(ConfigFile)>>
    /\ calls = <<ConfigFile>>
    /\ log = <<>>
    /\ rb_pc = "harness"
    /\ rb_ret = "none"
    /\ parse_ret = "none"
    /\ started = FALSE
    /\ round = 1
    /\ first_env = EmptyEnv
    /\ sub_in = <<>>
    /\ sub_out = [done |-> FALSE, ok |-> FALSE, s |-> <<>>]

\* the first resolution returned True: resolve the same file again
ResolveAgain ==
    /\ round = 1
    /\ Len(stack) = 1
    /\ Top.pc = "ret"
    /\ Top.res
    /\ round' = 2
    /\ first_env' = be_env
    /\ stack' = <<NewFrame(ConfigFile)>>
    /\ calls' = Append(calls, ConfigFile)
    /\ UNCHANGED <<fs, be_env, log, rb_pc, rb_ret, parse_ret, started, sub_in, sub_out>>

NextTwice ==
    \/ Open(PoolNone)
    \/ KeysDone
    \/ ScalarKey
    \/ ListBegin
    \/ ListElem
    \/ ListEnd
    \/ ResolveAgain

SpecTwice == InitTwice /\ [][NextTwice]_vars

\* one call of substitute_env_variables
InitSubst ==
    /\ sub_in \in SeqsOf(SubstChars, 0, MaxLen)
    /\ be_env \in SubstEnvs
    /\ sub_out = [done |-> FALSE, ok |-> FALSE, s |-> <<>>]
    /\ fs = [p \in AllPaths |-> Unread]
    /\ stack = <<>>
    /\ calls = <<>>
    /\ log = <<>>
    /\ rb_pc = "harness"
    /\ rb_ret = "none"
    /\ parse_ret = "none"
    /\ started = FALSE
    /\ round = 0
    /\ first_env = EmptyEnv

Substitute ==
    /\ ~sub_out.done
    /\ LET r == substitute_env_variables(sub_in, be_env)
       IN  sub_out' = [done |-> TRUE, ok |-> r.ok, s |-> r.s]
    /\ UNCHANGED <<fs, be_env, stack, calls, log, rb_pc, rb_ret, parse_ret,
                   started, round, first_env, sub_in>>

NextSubst == Substitute

SpecSubst == InitSubst /\ [][NextSubst]_vars

(***************************************************************************)
(* Claims about the include graph, under SpecGraph and SpecCycle.          *)
(***************************************************************************)
Finished == rb_pc \in {"done", "raised"}

\* a frame has just returned False
Failing == stack # <<>> /\ Top.pc = "ret" /\ ~Top.res

\* an error record of the resolver is in the log
ErrorLogged ==
    \E i \in 1..Len(log) : log[i] \in {"exception", "absolute", "undefined"}

\* C1: one top-level call, started with INCLUDE_CONFIGS seeded to the
\* top-level path, enters parse_config_file at most once per path, whatever
\* the include graph.
C1_EachPathLoadedOnce ==
    \A i, j \in 1..Len(calls) : i # j => calls[i] # calls[j]

\* C2: whatever the documents and the include graph (self-includes and
\* cycles included), no file is entered again while its own load is still
\* on the recursion stack (and the top-level call returns).
C2_NoReentryWhileLoading ==
    \A i, j \in 1..Len(stack) : i # j => stack[i].file # stack[j].file

\* C3: once the load of a file has failed, at any include depth, every
\* enclosing frame returns False without processing another element or key
\* (be_env, the files read and the log stay as they are, no further file is
\* entered), and the top-level call returns False to run_be_check, which
\* returns False without starting the checker; and every failure cause
\* (unreadable file, absolute path, unknown variable) makes the frame that
\* met it return False.
C3_Unwinds ==
    Failing =>
        /\ be_env' = be_env /\ calls' = calls /\ fs' = fs /\ log' = log
        /\ Len(stack') = Len(stack) - 1
        /\ IF Len(stack) >= 2
           THEN /\ SubSeq(stack', 1, Len(stack) - 2) = SubSeq(stack, 1, Len(stack) - 2)
                /\ stack'[Len(stack) - 1] = Returned(stack[Len(stack) - 1], FALSE)
                /\ UNCHANGED <<rb_pc, rb_ret, started>>
           ELSE rb_pc' = "done" /\ rb_ret' = "False" /\ parse_ret' = "False"
                /\ ~started'

C3_FailureSeen ==
    ErrorLogged => /\ ~started
                   /\ rb_pc = "parse" => Failing
                   /\ rb_pc # "parse" => rb_pc = "done" /\ rb_ret = "False"

\* C3: every failure makes its frame return False, and a False return
\* propagates frame by frame to run_be_check without any further write.
C3_FailurePropagates == [](C3_FailureSeen) /\ [][C3_Unwinds]_vars

\* C3 witness: a load fails three frames deep while the including frames
\* still have list elements and keys left to process.
C3_Witness ==
    /\ Failing
    /\ Len(stack) >= 3
    /\ \E i \in 1..(Len(stack) - 1) :
         stack[i].ei < Len(Entries(stack[i])[stack[i].ki].value)
    /\ \E i \in 1..(Len(stack) - 1) : stack[i].ki < Len(Entries(stack[i]))

(***************************************************************************)
(* Claims about values and run_be_check, under Spec.                       *)
(***************************************************************************)
LastLog == IF log = <<>> THEN "" ELSE log[Len(log)]

\* the innermost frame is about to process a value: the scalar of its
\* current entry, or the current element of its current list
AtValue ==
    /\ stack # <<>>
    /\ \/ Top.pc = "keys" /\ Top.ki <= Len(Entries(Top)) /\ ~Entry(Top).is_list
       \/ Top.pc = "elems" /\ Top.ei <= Len(Entry(Top).value)
CurValue == IF Top.pc = "keys" THEN Entry(Top).value[1] ELSE Entry(Top).value[Top.ei]
CurKey == Entry(Top).key
\* be_env[key] as it was when the current key was begun
KeyStartValue == IF Top.pc = "keys" THEN ValueOf(be_env, CurKey) ELSE Top.saved

BeginsWithSlash(string) == string # <<>> /\ Head(string) = "/"
RefersToUnknown(string, env) ==
    \E i \in 1..Len(FindAll(string)) : Spell(Tail(FindAll(string)[i])) \notin DOMAIN env

\* C4: the external checker is started only after the top-level
\* parse_config_file call returned True; when the config file is missing or
\* resolution returned False, run_be_check returns False and the checker is
\* never started.
C4_CheckerOnlyAfterResolution ==
    /\ started => parse_ret = "True"
    /\ (Finished /\ (fs[ConfigFile].kind = "missing" \/ parse_ret = "False"))
           => rb_ret = "False" /\ ~started
    /\ (rb_pc = "exec") => parse_ret = "True"

\* C4 witness: resolution failed inside an included file and run_be_check
\* has returned.
C4_Witness ==
    rb_pc = "done" /\ parse_ret = "False" /\ Len(calls) >= 2 /\ ~started

\* C5: a value that begins with "/" is rejected before substitution: the
\* step that meets it writes nothing to be_env, makes the frame return False
\* with the absolute-path error (never the unknown-variable error, whatever
\* the value references) and leaves the frame at that key; from then on
\* be_env is never written and no key or element is processed.
C5_Rejects ==
    (AtValue /\ BeginsWithSlash(CurValue)) =>
        /\ be_env' = be_env
        /\ Failing'
        /\ Len(stack') = Len(stack)
        /\ stack'[Len(stack)].ki = Top.ki /\ stack'[Len(stack)].ei = Top.ei
        /\ LastLog' # "undefined" /\ Len(log') = Len(log) + 1
        /\ ValueOf(be_env', CurKey) = ValueOf(be_env, CurKey)

C5_Frozen == Failing => be_env' = be_env /\ Len(stack') = Len(stack) - 1

C6_Step(keys_covered) ==
    (AtValue /\ ~BeginsWithSlash(CurValue) /\ RefersToUnknown(CurValue, be_env)
             /\ keys_covered) =>
        /\ Failing'
        /\ LastLog' = "undefined"
        /\ ValueOf(be_env', CurKey) = KeyStartValue

C6_ReturnsFalse ==
    (\E i \in 1..Len(log) : log[i] = "undefined") =>
        ~started /\ (Finished => rb_ret = "False")

\* C6 as stated: a value of key K referring to an unknown variable makes
\* resolution return False with be_env[K] as it was when key K began.
C6_NoPartialWriteAnyKey == [](C6_ReturnsFalse) /\ [][C6_Step(TRUE)]_vars

\* C6 amended: the same for every key K other than INCLUDE_CONFIGS.
C6_NoPartialWrite ==
    [](C6_ReturnsFalse) /\ [][C6_Step(CurKey # INCLUDE_CONFIGS)]_vars

\* C6 witness: an unknown variable was met in a list of another key after an
\* earlier element had been appended to exports.
C6_Witness ==
    /\ Failing /\ LastLog = "undefined"
    /\ Entry(Top).is_list /\ Entry(Top).key # INCLUDE_CONFIGS
    /\ Top.ei >= 2 /\ Top.exports # <<>>

\* C10: the environment handed to the external checker holds every key of
\* the resolved environment with the value resolution produced, whatever
\* os.environ holds.
C10_Step ==
    (~started /\ started') => \A k \in DOMAIN be_env : be_env'[k] = be_env[k]

\* C10: the step that starts the checker hands over every resolved key
\* with the value resolution produced.
C10_ResolvedEnvPassed == [][C10_Step]_vars

(***************************************************************************)
(* Claims about list merging (SpecMerge), repeated resolution (SpecTwice)  *)
(* and substitution (SpecSubst).                                           *)
(***************************************************************************)
\* the substituted elements of a list value
Substituted(list, env) ==
    [i \in 1..Len(list) |-> substitute_env_variables(list[i], env).s]

\* the members of subs that are not in prev, each once, in order of first
\* occurrence
RECURSIVE FirstsFrom(_, _, _)
FirstsFrom(prev, subs, i) ==
    IF i > Len(subs) THEN <<>>
    ELSE IF InList(subs[i], prev) \/ \E j \in 1..(i - 1) : subs[j] = subs[i]
         THEN FirstsFrom(prev, subs, i + 1)
         ELSE <<subs[i]>> \o FirstsFrom(prev, subs, i + 1)

\* the whitespace tokens of a string: its maximal runs of non-blank characters
TokenAt(s, i, j) ==
    /\ i <= j
    /\ \A k \in i..j : s[k] # " "
    /\ (i = 1 \/ s[i - 1] = " ")
    /\ (j = Len(s) \/ s[j + 1] = " ")
RECURSIVE TokensFrom(_, _)
TokensFrom(s, i) ==
    IF i > Len(s) THEN <<>>
    ELSE IF \E j \in i..Len(s) : TokenAt(s, i, j)
         THEN LET j == CHOOSE j \in i..Len(s) : TokenAt(s, i, j)
              IN  <<SubSeq(s, i, j)>> \o TokensFrom(s, j + 1)
         ELSE TokensFrom(s, i + 1)
Tokens(env, key) == IF key \in DOMAIN env THEN TokensFrom(env[key], 1) ELSE <<>>

abc == <<"a", " ", "b", " ", "c">>

\* C7: when a list value of a key K other than INCLUDE_CONFIGS has been
\* loaded, be_env[K] is the space-join of the tokens of the previous
\* be_env[K], in order, followed by the substituted incoming elements that
\* were not yet present, each once in order of first occurrence; and loading
\* ["a","b"] and then ["b","c"] from two sibling files yields "a b c".
C7_Step ==
    (stack # <<>> /\ Top.pc = "elems" /\ Top.ei > Len(Entry(Top).value)
                  /\ CurKey # INCLUDE_CONFIGS) =>
        /\ CurKey \in DOMAIN be_env'
        /\ be_env'[CurKey] =
               LET prev == Tokens(be_env, CurKey)
               IN  Join(prev \o FirstsFrom(prev, Substituted(Entry(Top).value, be_env), 1))

C7_Example ==
    (/\ parse_ret = "True"
     /\ fs[pA] = Doc(<<List(INCLUDE_CONFIGS, <<pB, pC>>)>>)
     /\ fs[pB] = Doc(<<List("LVS_IGNORE", <<<<"a">>, <<"b">>>>)>>)
     /\ fs[pC] = Doc(<<List("LVS_IGNORE", <<<<"b">>, <<"c">>>>)>>))
        => be_env["LVS_IGNORE"] = abc

\* C7: a list key's write is the previous tokens followed by the new
\* substituted elements, in first-occurrence order and without duplicates.
C7_ListsAccumulate == [](C7_Example) /\ [][C7_Step]_vars

\* C7 witness: the two sibling files of the example have been loaded.
C7_Witness ==
    /\ parse_ret = "True"
    /\ calls = <<pA, pB, pC>>
    /\ fs[pB] = Doc(<<List("LVS_IGNORE", <<<<"a">>, <<"b">>>>)>>)
    /\ fs[pC] = Doc(<<List("LVS_IGNORE", <<<<"b">>, <<"c">>>>)>>)
    /\ "LVS_IGNORE" \in DOMAIN be_env /\ be_env["LVS_IGNORE"] = abc

\* the second of the two resolutions has returned
SecondDone == round = 2 /\ Len(stack) = 1 /\ Top.pc = "ret"

\* C8 as stated: for a document with no INCLUDE_CONFIGS key whose resolution
\* succeeds, resolving it again on the result succeeds and leaves the
\* environment equal to the result of the first resolution.
C8_Idempotent == SecondDone => Top.res /\ be_env = first_env

\* no value of the document refers to a key the document assigns, and every
\* list element is, once substituted, one non-empty token without blanks
AssignedKeys(doc) == {doc.entries[i].key : i \in 1..Len(doc.entries)}
RefersToAssigned(doc, string) ==
    \E i \in 1..Len(FindAll(string)) :
        Spell(Tail(FindAll(string)[i])) \in AssignedKeys(doc)
OneToken(string) == string # <<>> /\ \A i \in 1..Len(string) : string[i] # " "
Stable(doc, env) ==
    \A i \in 1..Len(doc.entries) :
        LET e == doc.entries[i]
        IN  \A j \in 1..Len(e.value) :
              /\ ~RefersToAssigned(doc, e.value[j])
              /\ e.is_list => OneToken(substitute_env_variables(e.value[j], env).s)

\* C8 amended: the same, for documents in which no value refers to a
\* variable that the document itself assigns and every list element
\* substitutes to a single non-empty token without whitespace.
C8_IdempotentWhenStable ==
    (SecondDone /\ Stable(fs[ConfigFile], first_env)) =>
        Top.res /\ be_env = first_env

\* C8 witness: a stable document with a two-element list that refers to a
\* variable has been resolved twice.
C8_Witness ==
    /\ SecondDone
    /\ Stable(fs[ConfigFile], first_env)
    /\ \E i \in 1..Len(fs[ConfigFile].entries) :
         LET e == fs[ConfigFile].entries[i]
         IN  e.is_list /\ Len(e.value) = 2 /\ e.value[1] # e.value[2]
             /\ HasDollar(e.value[2])

\* every occurrence of every $name token replaced at once, left to right
RECURSIVE Simultaneous(_, _, _)
Simultaneous(s, i, env) ==
    IF i > Len(s) THEN <<>>
    ELSE IF s[i] = "$" /\ i < Len(s) /\ s[i + 1] \in WordChars
         THEN LET j == WordRunEnd(s, i + 1)
              IN  env[Spell(SubSeq(s, i + 1, j))] \o Simultaneous(s, j + 1, env)
         ELSE <<s[i]>> \o Simultaneous(s, i + 1, env)

\* C9: one call substitute_env_variables(s, env), where no env value holds
\* "$": when every $name token of s is a key of env, the result is s with
\* every occurrence of every token replaced by its value (repeats and
\* prefix-named tokens included); otherwise the result is None.
C9_SubstitutesEveryToken ==
    sub_out.done =>
        IF RefersToUnknown(sub_in, be_env)
        THEN ~sub_out.ok
        ELSE sub_out.ok /\ sub_out.s = Simultaneous(sub_in, 1, be_env)

====
